---- MODULE Spec2Model ----
(***************************************************************************)
(* Model of catkit/flow/fwase.py: the three workflow functions             *)
(* get_potential_energy, catflow_relaxation and run_mlneb, the module's    *)
(* guarded optional imports, and the database write of a relaxation.       *)
(* Calls are sequential (the module is single-threaded); every statement   *)
(* that can raise is one step, and an exception ends the call.             *)
(***************************************************************************)
EXTENDS Integers, Sequences, FiniteSets, TLC

\* ---------------------------------------------------------------- bounds
MaxImages == 2
MaxCalls == 2

\* fmax=0.05 of neb_catlearn.run, in hundredths
DefaultFmax == 5

\* ---------------------------------------------------------------- values
Names == {"decaf.Espresso", "ase.Espresso"}
Absent == "absent"
NoName == "None"
ConstraintValues == {"none", "FixAtoms"}
PbcValues == {<<TRUE, TRUE, FALSE>>, <<TRUE, TRUE, TRUE>>}
FmaxValues == {1, DefaultFmax}
CalculationValues == {"relax", "scf"}

\* a parameter dictionary: the two keys the module touches
DictValues == [calculator_name : Names \cup {Absent}, calculation : CalculationValues]
OwnDict == [calculator_name |-> Absent, calculation |-> "relax"]

\* dictionary objects: 0 the metadata of structures the module did not read
\* as input, 1 atoms.info['calculator_parameters'], 2 a parameters argument
InfoDict == 1
ArgDict == 2
NoRef == 0

\* a structure: constraints, periodic flags and the info mapping, which holds a
\* reference to its calculator_parameters dictionary and the fmax entry (0: no entry)
Structure(c, p, ref, f) == [cons |-> c, pbc |-> p, info |-> [cp |-> ref, fmax |-> f]]
None == Structure("None", <<FALSE, FALSE, FALSE>>, NoRef, 0)
NoInfo == [cp |-> NoRef, fmax |-> 0]
InputStructures == {Structure(c, p, InfoDict, f) : c \in ConstraintValues, p \in PbcValues, f \in {DefaultFmax}}
NebStructures == {Structure(c, p, InfoDict, f) : c \in ConstraintValues, p \in PbcValues, f \in FmaxValues \cup {0}}
ForeignStructures == {Structure(c, p, NoRef, 0) : c \in ConstraintValues, p \in PbcValues}

\* the trajectories a result file can hold
RECURSIVE SeqsOf(_, _)
SeqsOf(S, n) == IF n = 0 THEN {<<>>} ELSE {Append(s, x) : s \in SeqsOf(S, n - 1), x \in S}
Trajectories == UNION {SeqsOf(ForeignStructures, n) : n \in 1..MaxImages}

VARIABLES
    loaded, decafAvail, ckutilAvail, decaf, ckutil, importErr,
    fn, pc, err, calls,
    atomsArg, paramArg, atoms, atoms0, info0, dicts, parameters, calculator_name,
    calc, calcLog, data, images, nread, i, reader, fmax, nebFmax, trace,
    dbOpen, dbWrites, dbOpens, dbWrites0, persisted, relaxReturned

modVars == <<loaded, decafAvail, ckutilAvail, decaf, ckutil, importErr>>
dbVars == <<dbOpen, dbWrites, dbOpens, persisted>>
argVars == <<atomsArg, paramArg>>
inVars == <<atoms, atoms0, info0, dicts, parameters, calculator_name, data>>
runVars == <<calc, calcLog, fmax, nebFmax>>
outVars == <<images, nread, i, reader>>
ctlVars == <<fn, calls, dbWrites0, relaxReturned>>
vars == <<modVars, dbVars, argVars, inVars, runVars, outVars, ctlVars, pc, err, trace>>

\* ---------------------------------------------------------------- helpers
NpAll(p) == \A k \in 1..3 : p[k]

IsDecaf(cls) == cls = "decaf.Espresso"

\* the value of an info mapping: its entries with the dictionary it refers to
ResolveInfo(info) == [cp |-> dicts[info.cp], fmax |-> info.fmax]

\* try: import decaf; import ckutil  except ImportError: pass
ImportOutcome(dAvail, cAvail) ==
    [decaf |-> dAvail, ckutil |-> dAvail /\ cAvail, raised |-> "none"]

ReaderAlwaysAse(f, cls) == "ase"
\* the reader of the result trajectory
ReaderFor(f, cls) ==
    IF f = "mlneb" THEN "decaf"
    ELSE IF IsDecaf(cls) THEN "decaf" ELSE "ase"

PatchedPbcOnly(image, a) == [image EXCEPT !.pbc = a.pbc]
\* image.constraints = atoms.constraints; image._pbc = atoms.pbc
Patched(image, a) == [image EXCEPT !.cons = a.cons, !.pbc = a.pbc]

AfterPatchAlwaysDb(f) == "db_connect"
\* the statement after the patch loop
AfterPatch(f) == IF f = "relax" THEN "db_connect" ELSE "encode"

AfterRun0Skip(p) == "rx_readres"
\* if np.all(atoms.pbc): resymmetrize and run a final scf
AfterRun0(p) == IF NpAll(p) THEN "rx_resym" ELSE "rx_readres"

RaiseSwallowed(e) ==
    /\ pc' = "encode"
    /\ err' = e
    /\ UNCHANGED <<modVars, dbVars, argVars, inVars, runVars, outVars, ctlVars, trace>>
\* an exception leaves the function: nothing catches it
Raise(e) ==
    /\ pc' = "raised"
    /\ err' = e
    /\ UNCHANGED <<modVars, dbVars, argVars, inVars, runVars, outVars, ctlVars, trace>>

Log(step) == trace' = Append(trace, step)

Ended == pc \in {"idle", "returned", "raised"}

\* the state of a call's locals when the call begins
Begin(f) ==
    /\ loaded
    /\ Ended
    /\ calls < MaxCalls
    /\ calls' = calls + 1
    /\ fn' = f
    /\ err' = "none"
    /\ trace' = <<>>
    /\ atoms0' = None
    /\ info0' = ResolveInfo(NoInfo)
    /\ parameters' = NoRef
    /\ data' = NoInfo
    /\ calc' = NoName
    /\ calcLog' = <<>>
    /\ images' = <<>>
    /\ nread' = 0
    /\ i' = 0
    /\ reader' = "none"
    /\ fmax' = 0
    /\ nebFmax' = 0
    /\ dbWrites0' = dbWrites
    /\ persisted' = <<>>
    /\ UNCHANGED <<modVars, dbOpen, dbWrites, dbOpens, relaxReturned>>

\* ---------------------------------------------------------------- module import
Init ==
    /\ loaded = FALSE /\ decafAvail = FALSE /\ ckutilAvail = FALSE
    /\ decaf = FALSE /\ ckutil = FALSE /\ importErr = "none"
    /\ fn = "none" /\ pc = "idle" /\ err = "none" /\ calls = 0
    /\ atomsArg = None /\ paramArg = FALSE
    /\ atoms = None /\ atoms0 = None
    /\ dicts = [d \in {NoRef, InfoDict, ArgDict} |-> OwnDict]
    /\ info0 = [cp |-> OwnDict, fmax |-> 0]
    /\ parameters = NoRef /\ calculator_name = NoName /\ data = NoInfo
    /\ calc = NoName /\ calcLog = <<>> /\ images = <<>> /\ nread = 0 /\ i = 0
    /\ reader = "none" /\ fmax = 0 /\ nebFmax = 0 /\ trace = <<>>
    /\ dbOpen = FALSE /\ dbWrites = 0 /\ dbOpens = 0 /\ dbWrites0 = 0
    /\ persisted = <<>> /\ relaxReturned = 0

LoadModule ==
    /\ ~loaded
    /\ \E dAvail \in BOOLEAN, cAvail \in BOOLEAN :
        /\ decafAvail' = dAvail
        /\ ckutilAvail' = cAvail
        /\ decaf' = ImportOutcome(dAvail, cAvail).decaf
        /\ ckutil' = ImportOutcome(dAvail, cAvail).ckutil
        /\ importErr' = ImportOutcome(dAvail, cAvail).raised
    /\ loaded' = TRUE
    /\ UNCHANGED <<dbVars, argVars, inVars, runVars, outVars, ctlVars, pc, err, trace>>

\* ---------------------------------------------------------------- shared steps
\* atoms = ase.io.read(file): the structure and its calculator_parameters
ReadInput(S, D) ==
    \E s \in S, d \in D :
        /\ atoms' = s
        /\ atoms0' = s
        /\ dicts' = [dicts EXCEPT ![InfoDict] = d]
        /\ info0' = [cp |-> d, fmax |-> s.info.fmax]

\* for image in images: image.constraints = ...; image._pbc = ...
PatchImage ==
    /\ pc = "patch"
    /\ i <= Len(images)
    /\ images' = [images EXCEPT ![i] = Patched(images[i], atoms)]
    /\ i' = i + 1
    /\ UNCHANGED <<modVars, dbVars, argVars, inVars, runVars, ctlVars, nread, reader, pc, err, trace>>

PatchDone ==
    /\ pc = "patch"
    /\ i > Len(images)
    /\ pc' = AfterPatch(fn)
    /\ Log("patch")
    /\ UNCHANGED <<modVars, dbVars, argVars, inVars, runVars, outVars, ctlVars, err>>

\* return fwio.atoms_to_encode(images)
Encode ==
    /\ pc = "encode"
    /\ pc' = "returned"
    /\ Log("encode")
    /\ relaxReturned' = IF fn = "relax" THEN relaxReturned + 1 ELSE relaxReturned
    /\ UNCHANGED <<modVars, dbVars, argVars, inVars, runVars, outVars, fn, calls, dbWrites0, err>>

\* ---------------------------------------------------------------- get_potential_energy
CallGetPotentialEnergy ==
    /\ Begin("gpe")
    /\ \E calculator \in Names : calculator_name' = calculator
    /\ atomsArg' = None
    /\ paramArg' = FALSE
    /\ atoms' = None
    /\ dicts' = [d \in DOMAIN dicts |-> OwnDict]
    /\ pc' = "gpe_read"

GpeRead ==
    /\ pc = "gpe_read"
    /\ \/ Raise("FileNotFoundError")
       \/ /\ ReadInput(InputStructures, {OwnDict})
          /\ pc' = "gpe_inst"
          /\ Log("read_structure")
          /\ UNCHANGED <<modVars, dbVars, argVars, runVars, outVars, ctlVars, err,
                         parameters, calculator_name, data>>

GpeInstantiate ==
    /\ pc = "gpe_inst"
    /\ \/ Raise("CalculatorError")
       \/ /\ calc' = calculator_name
          /\ calcLog' = Append(calcLog, [calc_file |-> "default", calculation |-> dicts[atoms.info.cp].calculation])
          /\ pc' = "gpe_run"
          /\ Log("instantiate")
          /\ UNCHANGED <<modVars, dbVars, argVars, inVars, outVars, ctlVars, err, fmax, nebFmax>>

GpeRun ==
    /\ pc = "gpe_run"
    /\ \/ Raise("CalculatorError")
       \/ /\ pc' = "gpe_readres"
          /\ Log("run")
          /\ UNCHANGED <<modVars, dbVars, argVars, inVars, runVars, outVars, ctlVars, err>>

GpeReadResult ==
    /\ pc = "gpe_readres"
    /\ IF ~decaf THEN Raise("NameError")
       ELSE \/ Raise("FileNotFoundError")
            \/ \E file \in Trajectories :
                /\ reader' = ReaderFor(fn, calc)
                /\ images' = file
                /\ nread' = Len(file)
                /\ i' = 1
                /\ pc' = "patch"
                /\ Log("read_result")
                /\ UNCHANGED <<modVars, dbVars, argVars, inVars, runVars, ctlVars, err>>

\* ---------------------------------------------------------------- catflow_relaxation
CallCatflowRelaxation ==
    /\ Begin("relax")
    /\ \E a \in InputStructures \cup {None}, d1 \in DictValues, p \in BOOLEAN,
          n2 \in Names \cup {Absent}, name \in Names \cup {NoName} :
        /\ atomsArg' = a
        /\ paramArg' = p
        /\ calculator_name' = name
        /\ dicts' = [dicts EXCEPT ![InfoDict] = IF a = None THEN OwnDict ELSE d1,
                                  ![ArgDict] = IF p THEN [calculator_name |-> n2, calculation |-> "relax"]
                                               ELSE OwnDict]
    /\ atoms' = None
    /\ pc' = "rx_read"

\* if atoms is None: atoms = ase.io.read('input.traj')
RxRead ==
    /\ pc = "rx_read"
    /\ IF atomsArg = None
       THEN \/ Raise("FileNotFoundError")
            \/ /\ ReadInput(InputStructures, DictValues)
               /\ Log("read_structure")
               /\ pc' = "rx_params"
               /\ UNCHANGED <<modVars, dbVars, argVars, runVars, outVars, ctlVars, err,
                              parameters, calculator_name, data>>
       ELSE /\ atoms' = atomsArg
            /\ atoms0' = atomsArg
            /\ info0' = ResolveInfo(atomsArg.info)
            /\ pc' = "rx_params"
            /\ UNCHANGED <<modVars, dbVars, argVars, runVars, outVars, ctlVars, err, trace,
                           dicts, parameters, calculator_name, data>>

\* parameters / calculator_name defaults, then data = atoms.info.copy()
RxParams ==
    /\ pc = "rx_params"
    /\ LET p == IF paramArg THEN ArgDict ELSE atoms.info.cp
       IN  IF calculator_name = NoName /\ dicts[p].calculator_name = Absent
           THEN Raise("KeyError")
           ELSE /\ parameters' = p
                /\ IF calculator_name = NoName
                   THEN /\ calculator_name' = dicts[p].calculator_name
                        /\ dicts' = [dicts EXCEPT ![p].calculator_name = Absent]
                   ELSE UNCHANGED <<calculator_name, dicts>>
                /\ data' = atoms.info
                /\ pc' = "rx_inst0"
                /\ UNCHANGED <<modVars, dbVars, argVars, runVars, outVars, ctlVars, err, trace,
                               atoms, atoms0, info0>>

\* calc = calculator(atoms, calc_file='pw0.pwi', **parameters)
RxInstantiate0 ==
    /\ pc = "rx_inst0"
    /\ \/ Raise("CalculatorError")
       \/ /\ calc' = calculator_name
          /\ calcLog' = Append(calcLog, [calc_file |-> "pw0.pwi", calculation |-> dicts[parameters].calculation])
          /\ pc' = "rx_run0"
          /\ Log("instantiate")
          /\ UNCHANGED <<modVars, dbVars, argVars, inVars, outVars, ctlVars, err, fmax, nebFmax>>

RxRun0 ==
    /\ pc = "rx_run0"
    /\ \/ Raise("CalculatorError")
       \/ /\ pc' = AfterRun0(atoms.pbc)
          /\ Log("run")
          /\ UNCHANGED <<modVars, dbVars, argVars, inVars, runVars, outVars, ctlVars, err>>

\* tag, atoms = ckutil.aflow.get_prototype_tag(calc.atoms, tol=1e-2)
RxResymmetrize ==
    /\ pc = "rx_resym"
    /\ IF ~ckutil THEN Raise("NameError")
       ELSE \E s \in ForeignStructures :
                /\ atoms' = s
                /\ pc' = "rx_inst1"
                /\ Log("resymmetrize")
                /\ UNCHANGED <<modVars, dbVars, argVars, runVars, outVars, ctlVars, err,
                               atoms0, info0, dicts, parameters, calculator_name, data>>

\* parameters['calculation'] = 'scf'; calc = calculator(atoms, calc_file='pw1.pwi', ...)
RxInstantiate1 ==
    /\ pc = "rx_inst1"
    /\ dicts' = [dicts EXCEPT ![parameters].calculation = "scf"]
    /\ \/ /\ pc' = "raised"
          /\ err' = "CalculatorError"
          /\ UNCHANGED <<calc, calcLog, trace>>
       \/ /\ calc' = calculator_name
          /\ calcLog' = Append(calcLog, [calc_file |-> "pw1.pwi", calculation |-> "scf"])
          /\ pc' = "rx_run1"
          /\ Log("instantiate")
          /\ UNCHANGED err
    /\ UNCHANGED <<modVars, dbVars, argVars, outVars, ctlVars, fmax, nebFmax,
                   atoms, atoms0, info0, parameters, calculator_name, data>>

RxRun1 ==
    /\ pc = "rx_run1"
    /\ \/ Raise("CalculatorError")
       \/ /\ pc' = "rx_readres"
          /\ Log("run")
          /\ UNCHANGED <<modVars, dbVars, argVars, inVars, runVars, outVars, ctlVars, err>>

\* images = <reader>.read('pw0.pwo', ':'); images[0].info = data;
\* if np.all(atoms.pbc): images += [atoms]
RxImages(file) ==
    [file EXCEPT ![1].info = data] \o (IF NpAll(atoms.pbc) THEN <<atoms>> ELSE <<>>)

RxReadResult ==
    /\ pc = "rx_readres"
    /\ IF ~decaf THEN Raise("NameError")
       ELSE \/ Raise("FileNotFoundError")
            \/ \E file \in Trajectories :
                /\ reader' = ReaderFor(fn, calc)
                /\ images' = RxImages(file)
                /\ nread' = Len(file)
                /\ i' = 1
                /\ pc' = "patch"
                /\ Log("read_result")
                /\ UNCHANGED <<modVars, dbVars, argVars, inVars, runVars, ctlVars, err>>

\* with db.Connect() as dbflow: dbflow.update_bulk_entry(images)
DbConnect ==
    /\ pc = "db_connect"
    /\ dbOpen' = TRUE
    /\ dbOpens' = dbOpens + 1
    /\ pc' = "db_update"
    /\ UNCHANGED <<modVars, argVars, inVars, runVars, outVars, ctlVars, err, trace, dbWrites, persisted>>

DbUpdateBulkEntry ==
    /\ pc = "db_update"
    /\ dbWrites' = dbWrites + 1
    /\ persisted' = images
    /\ pc' = "db_release"
    /\ Log("persist")
    /\ UNCHANGED <<modVars, argVars, inVars, runVars, outVars, ctlVars, err, dbOpen, dbOpens>>

DbRelease ==
    /\ pc = "db_release"
    /\ dbOpen' = FALSE
    /\ pc' = "encode"
    /\ UNCHANGED <<modVars, argVars, inVars, runVars, outVars, ctlVars, err, trace, dbWrites, dbOpens, persisted>>

\* ---------------------------------------------------------------- run_mlneb
CallRunMlneb ==
    /\ Begin("mlneb")
    /\ calculator_name' = "catlearn.optimize.mlneb.MLNEB"
    /\ atomsArg' = None
    /\ paramArg' = FALSE
    /\ atoms' = None
    /\ dicts' = [d \in DOMAIN dicts |-> OwnDict]
    /\ pc' = "neb_read"

NebRead ==
    /\ pc = "neb_read"
    /\ \/ Raise("FileNotFoundError")
       \/ /\ ReadInput(NebStructures, {OwnDict})
          /\ pc' = "neb_inst"
          /\ Log("read_structure")
          /\ UNCHANGED <<modVars, dbVars, argVars, runVars, outVars, ctlVars, err,
                         parameters, calculator_name, data>>

NebInstantiate ==
    /\ pc = "neb_inst"
    /\ \/ Raise("CalculatorError")
       \/ /\ calc' = calculator_name
          /\ calcLog' = Append(calcLog, [calc_file |-> "default", calculation |-> "neb"])
          /\ pc' = "neb_fmax"
          /\ Log("instantiate")
          /\ UNCHANGED <<modVars, dbVars, argVars, inVars, outVars, ctlVars, err, fmax, nebFmax>>

\* fmax = atoms.info['fmax']
NebFmax ==
    /\ pc = "neb_fmax"
    /\ IF atoms.info.fmax = 0 THEN Raise("KeyError")
       ELSE /\ fmax' = atoms.info.fmax
            /\ pc' = "neb_run"
            /\ UNCHANGED <<modVars, dbVars, argVars, inVars, outVars, ctlVars, err, trace,
                           calc, calcLog, nebFmax>>

\* the fmax keyword of neb_catlearn.run
RunFmax(f) == DefaultFmax

\* neb_catlearn.run(fmax=0.05, trajectory=out_file)
NebRun ==
    /\ pc = "neb_run"
    /\ nebFmax' = RunFmax(fmax)
    /\ \/ /\ pc' = "raised"
          /\ err' = "CalculatorError"
          /\ UNCHANGED trace
       \/ /\ pc' = "neb_readres"
          /\ Log("run")
          /\ UNCHANGED err
    /\ UNCHANGED <<modVars, dbVars, argVars, inVars, outVars, ctlVars, calc, calcLog, fmax>>

\* images = decaf.io.read(out_file, ':')
NebReadResult ==
    /\ pc = "neb_readres"
    /\ IF ~decaf THEN Raise("NameError")
       ELSE \/ Raise("FileNotFoundError")
            \/ \E file \in Trajectories :
                /\ reader' = ReaderFor(fn, calc)
                /\ images' = file
                /\ nread' = Len(file)
                /\ i' = 1
                /\ pc' = "patch"
                /\ Log("read_result")
                /\ UNCHANGED <<modVars, dbVars, argVars, inVars, runVars, ctlVars, err>>

\* ---------------------------------------------------------------- specification
Next ==
    \/ LoadModule
    \/ CallGetPotentialEnergy \/ GpeRead \/ GpeInstantiate \/ GpeRun \/ GpeReadResult
    \/ CallCatflowRelaxation \/ RxRead \/ RxParams \/ RxInstantiate0 \/ RxRun0
    \/ RxResymmetrize \/ RxInstantiate1 \/ RxRun1 \/ RxReadResult
    \/ DbConnect \/ DbUpdateBulkEntry \/ DbRelease
    \/ CallRunMlneb \/ NebRead \/ NebInstantiate \/ NebFmax \/ NebRun \/ NebReadResult
    \/ PatchImage \/ PatchDone \/ Encode

Spec == Init /\ [][Next]_vars

\* ---------------------------------------------------------------- properties
Count(step) == Cardinality({k \in 1..Len(trace) : trace[k] = step})

IsPrefix(s, t) == Len(s) <= Len(t) /\ \A k \in 1..Len(s) : s[k] = t[k]

CarriesInput(seq) ==
    \A k \in 1..Len(seq) : seq[k].cons = atoms0.cons /\ seq[k].pbc = atoms0.pbc

HandedToEncoder == pc \in {"encode", "returned"}

\* C1: when get_potential_energy or run_mlneb returns, every structure of the
\* trajectory handed to the encoder carries the constraints and the periodic
\* flags of the input structure, whatever the trajectory's length.
C1_PatchConservesInput ==
    (fn \in {"gpe", "mlneb"} /\ HandedToEncoder) => CarriesInput(images)

C1_Witness ==
    /\ fn = "mlneb" /\ pc = "returned"
    /\ Len(images) = 1
    /\ atoms0.cons = "FixAtoms" /\ NpAll(atoms0.pbc)

\* C2: every structure catflow_relaxation persists and returns carries the
\* constraints and the periodic flags of the input structure, for a bulk input too.
C2_RelaxationConservesInput ==
    (fn = "relax" /\ HandedToEncoder) => (CarriesInput(images) /\ CarriesInput(persisted))

\* C3 as stated: the seven steps run in linear order, each exactly once per call.
LinearSteps(f) ==
    <<"read_structure", "instantiate", "run", "read_result", "patch">>
        \o (IF f = "relax" THEN <<"persist">> ELSE <<>>) \o <<"encode">>

NamedSteps == SelectSeq(trace, LAMBDA s : s # "resymmetrize")

C3_StrictlyLinear == pc = "returned" => NamedSteps = LinearSteps(fn)

\* the order the code follows: the read is skipped when atoms is passed, and a
\* bulk relaxation resymmetrizes, instantiates and runs a second time
ExpectedSteps ==
    (IF fn = "relax" /\ atomsArg # None THEN <<>> ELSE <<"read_structure">>)
        \o <<"instantiate", "run">>
        \o (IF fn = "relax" /\ NpAll(atoms0.pbc)
            THEN <<"resymmetrize", "instantiate", "run">> ELSE <<>>)
        \o <<"read_result", "patch">>
        \o (IF fn = "relax" THEN <<"persist">> ELSE <<>>)
        \o <<"encode">>

\* C3 (amended): the steps of a call are a prefix of read structure (skipped by
\* catflow_relaxation when atoms is passed), instantiate, run, (bulk relaxation
\* only: resymmetrize, instantiate, run), read result, patch, (relaxation only)
\* persist, encode; a returned call ran all of them; the database write happens
\* after every image was patched and before the encoding.
C3_StepOrder ==
    /\ fn # "none" => IsPrefix(trace, ExpectedSteps)
    /\ pc = "returned" => trace = ExpectedSteps
    /\ pc \in {"db_connect", "db_update", "db_release"} =>
        /\ i > Len(images)
        /\ \A k \in 1..Len(images) : images[k] = Patched(images[k], atoms)
        /\ Count("encode") = 0

C3_Witness ==
    /\ fn = "relax" /\ pc = "returned"
    /\ NpAll(atoms0.pbc)
    /\ Count("run") = 2 /\ Count("persist") = 1

\* C4: the database is written once per catflow_relaxation that completes, inside
\* a connection that is opened for that write and released after it; a failed
\* relaxation writes nothing; the other two functions never open the database.
C4_OneWritePerRelaxation ==
    /\ dbOpen <=> pc \in {"db_update", "db_release"}
    /\ dbOpens = dbWrites + (IF pc = "db_update" THEN 1 ELSE 0)
    /\ dbWrites = relaxReturned + (IF fn = "relax" /\ pc \in {"db_release", "encode"} THEN 1 ELSE 0)
    /\ fn # "relax" => (dbWrites = dbWrites0 /\ ~dbOpen)
    /\ pc = "raised" => dbWrites = dbWrites0
    /\ (fn = "relax" /\ pc = "returned") => dbWrites = dbWrites0 + 1
    /\ Ended => (dbWrites = relaxReturned /\ ~dbOpen)

C4_Witness ==
    /\ fn = "gpe" /\ pc = "returned"
    /\ calls = 2 /\ relaxReturned = 1 /\ dbWrites = 1

ReadOrCalculatorFailure == err \in {"FileNotFoundError", "CalculatorError"}

\* C5: a failed file read or calculator ends the call with that failure: no later
\* step of the call runs, nothing is written and nothing is encoded.
C5_FailurePropagates ==
    /\ [](ReadOrCalculatorFailure =>
            /\ pc = "raised"
            /\ dbWrites = dbWrites0 /\ ~dbOpen /\ persisted = <<>>
            /\ Count("persist") = 0 /\ Count("encode") = 0)
    /\ [][(pc = "raised" /\ ReadOrCalculatorFailure) =>
            (calls' = calls + 1 /\ trace' = <<>> /\ err' = "none")]_vars

C5_Witness ==
    /\ fn = "relax" /\ pc = "raised" /\ err = "CalculatorError"
    /\ Count("run") = 1 /\ NpAll(atoms0.pbc)

\* C6: a call that fails because an optional dependency is missing fails with the
\* import failure itself, and not after the calculation has been run.
C6_ImportFailurePropagates ==
    (pc = "raised" /\ err \in {"ImportError", "NameError"}) =>
        (err = "ImportError" /\ Count("run") = 0)

ResultRead == fn = "relax" /\ reader # "none"

\* C7: the second calculation (scf, 'pw1.pwi') is run iff the input is periodic in
\* all directions, the final structure is appended as the last image exactly when
\* it was run, and otherwise one calculation is run and the trajectory is the
\* images read from 'pw0.pwo'.
C7_SecondCalculationIffBulk ==
    ResultRead =>
        /\ (Len(calcLog) = 2) <=> NpAll(atoms0.pbc)
        /\ Len(calcLog) = 2 =>
            /\ calcLog[2] = [calc_file |-> "pw1.pwi", calculation |-> "scf"]
            /\ Count("run") = 2
        /\ (Len(images) = nread + 1) <=> (Len(calcLog) = 2)
        /\ Len(images) = nread + 1 => images[Len(images)] = atoms
        /\ ~NpAll(atoms0.pbc) => (Count("run") = 1 /\ Len(images) = nread)

\* C8: the fmax passed to the NEB run is the 'fmax' entry of the start
\* structure's metadata.
C8_FmaxFromMetadata ==
    (fn = "mlneb" /\ Count("run") = 1) => nebFmax = atoms0.info.fmax

\* C9: the result is read with the decaf reader iff the calculator is a
\* decaf.Espresso (always in run_mlneb) and with the ase reader otherwise; the
\* whole trajectory is read, and patching, persistence and encoding are the same
\* for both readers.
C9_ReaderByCalculator ==
    reader # "none" =>
        /\ fn \in {"gpe", "relax"} => (reader = "decaf" <=> IsDecaf(calc))
        /\ fn \in {"gpe", "relax"} => (reader = "ase" <=> ~IsDecaf(calc))
        /\ fn = "mlneb" => reader = "decaf"
        /\ nread \in 1..MaxImages
        /\ Len(images) = nread + (IF fn = "relax" /\ NpAll(atoms.pbc) THEN 1 ELSE 0)
        /\ fn = "relax" => images[1].info = data
        /\ HandedToEncoder => \A k \in 1..Len(images) : images[k] = Patched(images[k], atoms)
        /\ (fn = "relax" /\ HandedToEncoder) => persisted = images
        /\ pc = "returned" => trace = ExpectedSteps

C9_Witness ==
    /\ fn = "relax" /\ pc = "returned"
    /\ reader = "ase" /\ calc = "ase.Espresso"
    /\ nread = MaxImages

\* C10: the metadata of the first image is the input structure's metadata as it
\* was when the call started, and no other image's metadata is replaced.
C10_FirstImageMetadata ==
    ResultRead =>
        /\ ResolveInfo(images[1].info) = info0
        /\ \A k \in 2..nread : images[k].info = NoInfo

====
